---- MODULE Spec2Model ----
(***************************************************************************)
(* The species enrichment resolver of the "Add Species" dialog             *)
(* (src/app/species/species-card.tsx, AddSpeciesDialog).                    *)
(*                                                                         *)
(* Text is a sequence of one-character strings, so that trimming, the      *)
(* regular expressions and parseFloat are computed character by character. *)
(* An optional value (null / undefined in the source) is None or Some(x).  *)
(***************************************************************************)
EXTENDS Integers, Sequences, FiniteSets, TLC

None == <<>>
Some(x) == <<x>>
IsSome(o) == o # <<>>
Val(o) == o[1]

(***************************************************************************)
(* Characters                                                              *)
(***************************************************************************)
UpperSeq == <<"A","B","C","D","E","F","G","H","I","J","K","L","M",
              "N","O","P","Q","R","S","T","U","V","W","X","Y","Z">>
LowerSeq == <<"a","b","c","d","e","f","g","h","i","j","k","l","m",
              "n","o","p","q","r","s","t","u","v","w","x","y","z">>
DigitSeq == <<"0","1","2","3","4","5","6","7","8","9">>

Min(a, b) == IF a <= b THEN a ELSE b
Range(s) == {s[i] : i \in 1..Len(s)}
UpperCase == Range(UpperSeq)
LowerCase == Range(LowerSeq)
Digits == Range(DigitSeq)
\* \s of a JavaScript regular expression and of String.prototype.trim
WhiteSpace == {" ", "\t", "\n"}

\* c.toLowerCase() for one character
ToLower(c) ==
    IF c \in UpperCase
    THEN LowerSeq[CHOOSE i \in 1..26 : UpperSeq[i] = c]
    ELSE c

DigitValue(c) == (CHOOSE i \in 1..10 : DigitSeq[i] = c) - 1

\* s.substring(from - 1, to) with 1-based inclusive positions
Slice(s, from, to) == [i \in 1..(IF to >= from THEN to - from + 1 ELSE 0) |-> s[from + i - 1]]

\* String.prototype.trim
trim(s) ==
    LET keep == {i \in 1..Len(s) : s[i] \notin WhiteSpace}
    IN  IF keep = {} THEN <<>>
        ELSE Slice(s, CHOOSE i \in keep : \A j \in keep : i <= j,
                      CHOOSE i \in keep : \A j \in keep : i >= j)

\* the literal word w (lower case) occurs in s at position p; with the regex's i flag
MatchesAt(s, p, w) ==
    /\ p >= 1
    /\ p + Len(w) - 1 <= Len(s)
    /\ \A j \in 1..Len(w) : ToLower(s[p + j - 1]) = w[j]

\* position after the longest run of whitespace starting at p (greedy \s*)
RECURSIVE SkipWs(_, _)
SkipWs(s, p) == IF p <= Len(s) /\ s[p] \in WhiteSpace THEN SkipWs(s, p + 1) ELSE p

\* position after the longest run of characters of set cs starting at p
RECURSIVE SkipSet(_, _, _)
SkipSet(s, p, cs) == IF p <= Len(s) /\ s[p] \in cs THEN SkipSet(s, p + 1, cs) ELSE p

(***************************************************************************)
(* Numbers: a decimal literal is kept exactly, as num / 10^dec with a sign *)
(***************************************************************************)
RECURSIVE Pow10(_)
Pow10(n) == IF n = 0 THEN 1 ELSE 10 * Pow10(n - 1)

RECURSIVE DigitsValue(_)
DigitsValue(ds) ==
    IF ds = <<>> THEN 0
    ELSE 10 * DigitsValue(Slice(ds, 1, Len(ds) - 1)) + DigitValue(ds[Len(ds)])

NaN == [nan |-> TRUE, neg |-> FALSE, num |-> 0, dec |-> 0]

\* Number.parseFloat on the decimal grammar [ws][+-]digits[.digits]: the longest
\* prefix that is a number, NaN when there is none ("", ".", "abc").
parseFloat(str) ==
    LET s0 == SkipWs(str, 1)
        signed == s0 <= Len(str) /\ str[s0] \in {"+", "-"}
        neg == signed /\ str[s0] = "-"
        s1 == IF signed THEN s0 + 1 ELSE s0
        s2 == SkipSet(str, s1, Digits)
        hasDot == s2 <= Len(str) /\ str[s2] = "."
        s3 == IF hasDot THEN SkipSet(str, s2 + 1, Digits) ELSE s2
        intDigits == Slice(str, s1, s2 - 1)
        fracDigits == IF hasDot THEN Slice(str, s2 + 1, s3 - 1) ELSE <<>>
    IN  IF intDigits = <<>> /\ fracDigits = <<>> THEN NaN
        ELSE [nan |-> FALSE, neg |-> neg,
              num |-> DigitsValue(intDigits \o fracDigits), dec |-> Len(fracDigits)]

\* Number.isFinite(x): the grammar above yields no Infinity
isFinite(x) == ~x.nan

\* a test that only rejects NaN
NotNaN(x) == ~x.nan

\* x > 0
IsPositive(x) == ~x.nan /\ ~x.neg /\ x.num > 0

\* Math.round(num * factor / 10^dec) for a value >= 0: halves round up
round(num, factor, dec) ==
    LET p == num * factor
        q == p \div Pow10(dec)
        r == p % Pow10(dec)
    IN  IF 2 * r >= Pow10(dec) THEN q + 1 ELSE q

(***************************************************************************)
(* parsePopulation: the two regular expressions, matched as a backtracking *)
(* matcher does (leftmost start, alternatives in order, greedy / lazy      *)
(* quantifiers), then the number and the unit are converted.               *)
(***************************************************************************)
\* (?:population|individuals?|remain(?:ing)?|left|numbers?), longer optional part first
Keywords ==
    << <<"p","o","p","u","l","a","t","i","o","n">>,
       <<"i","n","d","i","v","i","d","u","a","l","s">>,
       <<"i","n","d","i","v","i","d","u","a","l">>,
       <<"r","e","m","a","i","n","i","n","g">>,
       <<"r","e","m","a","i","n">>,
       <<"l","e","f","t">>,
       <<"n","u","m","b","e","r","s">>,
       <<"n","u","m","b","e","r">> >>

\* (?:about|around|approximately|approx\.?|roughly|some|nearly|over|more than|
\*    at least|fewer than|less than|~)?  : each alternative in order, then nothing
Qualifiers ==
    << <<"a","b","o","u","t">>,
       <<"a","r","o","u","n","d">>,
       <<"a","p","p","r","o","x","i","m","a","t","e","l","y">>,
       <<"a","p","p","r","o","x",".">>,
       <<"a","p","p","r","o","x">>,
       <<"r","o","u","g","h","l","y">>,
       <<"s","o","m","e">>,
       <<"n","e","a","r","l","y">>,
       <<"o","v","e","r">>,
       <<"m","o","r","e"," ","t","h","a","n">>,
       <<"a","t"," ","l","e","a","s","t">>,
       <<"f","e","w","e","r"," ","t","h","a","n">>,
       <<"l","e","s","s"," ","t","h","a","n">>,
       <<"~">>,
       <<>> >>

\* (million|billion|thousand|m|bn|k)? in the regex's order
UnitWords ==
    << <<"m","i","l","l","i","o","n">>,
       <<"b","i","l","l","i","o","n">>,
       <<"t","h","o","u","s","a","n","d">>,
       <<"m">>,
       <<"b","n">>,
       <<"k">> >>

\* const units: Record<string, number>
units(unit) ==
    CASE unit = <<"t","h","o","u","s","a","n","d">> -> 1000
      [] unit = <<"k">> -> 1000
      [] unit = <<"m","i","l","l","i","o","n">> -> 1000000
      [] unit = <<"m">> -> 1000000
      [] unit = <<"b","i","l","l","i","o","n">> -> 1000000000
      [] unit = <<"b","n">> -> 1000000000
      [] OTHER -> 1

NumberChars == Digits \cup {","}

\* \D{0,GenericGap}? of the first pattern and \D{0,EstimatedGap} of the second
GenericGap == 25
EstimatedGap == 10


\* ([\d,]+(?:\.\d+)?)\s*(unit)? from position p, where text[p] is a digit or a comma:
\* everything after the first character is greedy and cannot fail.
CaptureAt(text, p) ==
    LET e1 == SkipSet(text, p, NumberChars)
        frac == e1 + 1 <= Len(text) /\ text[e1] = "." /\ text[e1 + 1] \in Digits
        e2 == IF frac THEN SkipSet(text, e1 + 1, Digits) ELSE e1
        u == SkipWs(text, e2)
        hits == {x \in 1..Len(UnitWords) : MatchesAt(text, u, UnitWords[x])}
    IN  [num |-> Slice(text, p, e2 - 1),
         unit |-> IF hits = {} THEN None
                  ELSE Some(UnitWords[CHOOSE x \in hits : \A y \in hits : x <= y])]

\* is text[p] the first character of group 1
AtNumber(text, p) == p >= 1 /\ p <= Len(text) /\ text[p] \in NumberChars

\* (?:qualifier)?\s* from position s: the alternatives from x on in order, the last
\* one being no qualifier; where group 1 then starts, or 0
RECURSIVE QualifierThenNumber(_, _, _)
QualifierThenNumber(text, s, x) ==
    IF x > Len(Qualifiers) THEN 0
    ELSE IF /\ MatchesAt(text, s, Qualifiers[x])
            /\ AtNumber(text, SkipWs(text, s + Len(Qualifiers[x])))
         THEN SkipWs(text, s + Len(Qualifiers[x]))
         ELSE QualifierThenNumber(text, s, x + 1)

\* \D{0,25}? after a keyword ending before position e: lazy, so the gaps k, k+1, ...
\* are tried in turn; where group 1 starts, or 0
RECURSIVE GapThenNumber(_, _, _)
GapThenNumber(text, e, k) ==
    IF QualifierThenNumber(text, e + k, 1) # 0 THEN QualifierThenNumber(text, e + k, 1)
    ELSE IF k < GenericGap /\ e + k <= Len(text) /\ text[e + k] \notin Digits
         THEN GapThenNumber(text, e, k + 1)
         ELSE 0

\* the keyword alternatives from x on, tried in order at start i
RECURSIVE KeywordThenNumber(_, _, _)
KeywordThenNumber(text, i, x) ==
    IF x > Len(Keywords) THEN 0
    ELSE IF MatchesAt(text, i, Keywords[x]) /\ GapThenNumber(text, i + Len(Keywords[x]), 0) # 0
         THEN GapThenNumber(text, i + Len(Keywords[x]), 0)
         ELSE KeywordThenNumber(text, i, x + 1)

\* the start positions from i on, leftmost first
RECURSIVE GenericNumberFrom(_, _)
GenericNumberFrom(text, i) ==
    IF i > Len(text) THEN 0
    ELSE IF KeywordThenNumber(text, i, 1) # 0 THEN KeywordThenNumber(text, i, 1)
    ELSE GenericNumberFrom(text, i + 1)

\* text.match(patterns[0]): None, or Some of the two groups
MatchGeneric(text) ==
    IF GenericNumberFrom(text, 1) = 0 THEN None
    ELSE Some(CaptureAt(text, GenericNumberFrom(text, 1)))

\* \D{0,10} after "population" ending before position e: greedy, so the gap k is as
\* long as it can be and then backs off; where group 1 starts, or 0
RECURSIVE GreedyGapThenNumber(_, _, _)
GreedyGapThenNumber(text, e, k) ==
    IF k < 0 THEN 0
    ELSE IF AtNumber(text, e + k) THEN e + k
    ELSE GreedyGapThenNumber(text, e, k - 1)

\* position after the longest run of \D starting at p
RECURSIVE SkipNonDigits(_, _)
SkipNonDigits(text, p) ==
    IF p <= Len(text) /\ text[p] \notin Digits THEN SkipNonDigits(text, p + 1) ELSE p

\* \s+population\D{0,10} from position b; where group 1 starts, or 0
PopulationThenNumber(text, b) ==
    LET w == SkipWs(text, b)
        e == w + 10
    IN  IF w > b /\ MatchesAt(text, w, <<"p","o","p","u","l","a","t","i","o","n">>)
        THEN GreedyGapThenNumber(text, e, Min(EstimatedGap, SkipNonDigits(text, e) - e))
        ELSE 0

\* estimated(?:\s+global)?... tried at start i: with " global" first, then without
EstimatedNumberAt(text, i) ==
    LET a == i + 9
        g == SkipWs(text, a)
    IN  IF ~MatchesAt(text, i, <<"e","s","t","i","m","a","t","e","d">>) THEN 0
        ELSE IF /\ g > a
                /\ MatchesAt(text, g, <<"g","l","o","b","a","l">>)
                /\ PopulationThenNumber(text, g + 6) # 0
             THEN PopulationThenNumber(text, g + 6)
             ELSE PopulationThenNumber(text, a)

\* the start positions from i on, leftmost first
RECURSIVE EstimatedNumberFrom(_, _)
EstimatedNumberFrom(text, i) ==
    IF i > Len(text) THEN 0
    ELSE IF EstimatedNumberAt(text, i) # 0 THEN EstimatedNumberAt(text, i)
    ELSE EstimatedNumberFrom(text, i + 1)

\* text.match(patterns[1])
MatchEstimated(text) ==
    IF EstimatedNumberFrom(text, 1) = 0 THEN None
    ELSE Some(CaptureAt(text, EstimatedNumberFrom(text, 1)))

\* m[1].replace(/,/g, "")
RECURSIVE StripCommas(_)
StripCommas(s) ==
    IF s = <<>> THEN <<>>
    ELSE (IF Head(s) = "," THEN <<>> ELSE <<Head(s)>>) \o StripCommas(Tail(s))

\* Math.round(base * factor) of the for loop's body, for the groups m of a match
RoundedCount(m) ==
    round(parseFloat(StripCommas(m.num)).num,
          IF IsSome(m.unit) THEN units(Val(m.unit)) ELSE 1,
          parseFloat(StripCommas(m.num)).dec)

\* the body of the for loop for one match m: Some(n) on return n, None on fall through
PopulationOfMatch(m) ==
    IF ~IsSome(m) THEN None
    ELSE IF ~isFinite(parseFloat(StripCommas(Val(m).num))) THEN None
    ELSE IF RoundedCount(Val(m)) > 0 THEN Some(RoundedCount(Val(m)))
    ELSE None

\* const patterns: RegExp[]: the match of the x-th pattern of the array
patterns(text, x) == IF x = 1 THEN MatchGeneric(text) ELSE MatchEstimated(text)

\* for (const re of patterns), from the x-th pattern on
RECURSIVE PopulationFrom(_, _)
PopulationFrom(text, x) ==
    IF x > 2 THEN None
    ELSE IF IsSome(PopulationOfMatch(patterns(text, x))) THEN PopulationOfMatch(patterns(text, x))
    ELSE PopulationFrom(text, x + 1)

\* parsePopulation(text: string | undefined): number | null
parsePopulation(text) ==
    IF ~IsSome(text) \/ Val(text) = <<>> THEN None
    ELSE PopulationFrom(Val(text), 1)

(***************************************************************************)
(* fetchFromWikidata: what is read off the entity of a facts response      *)
(***************************************************************************)
\* popClaim.amount.replace("+", ""): the first "+" only
replacePlus(s) ==
    LET at == {i \in 1..Len(s) : s[i] = "+"}
    IN  IF at = {} THEN s
        ELSE LET i == CHOOSE a \in at : \A b \in at : a <= b
             IN  Slice(s, 1, i - 1) \o Slice(s, i + 1, Len(s))

\* const scientific = typeof sciVal === "string" && sciVal.trim().length > 0 ? sciVal.trim() : null
scientificOf(sciVal) ==
    IF IsSome(sciVal) /\ Val(sciVal).string /\ Len(trim(Val(sciVal).value)) > 0
    THEN Some(trim(Val(sciVal).value))
    ELSE None

\* let population = null; if (popClaim?.amount) { n = parseFloat(...); if (finite && n > 0) round }
populationOf(amount) ==
    IF IsSome(amount) /\ Val(amount) # <<>>
    THEN LET n == parseFloat(replacePlus(Val(amount)))
         IN  IF isFinite(n) /\ IsPositive(n) THEN Some(round(n.num, 1, n.dec)) ELSE None
    ELSE None

\* the { scientific, population } fetchFromWikidata returns for a response
fetchFromWikidata(resp) ==
    IF ~resp.ok THEN [scientific |-> None, population |-> None]
    ELSE LET entity == Val(resp.json).entity
         IN  IF ~IsSome(entity) THEN [scientific |-> None, population |-> None]
             ELSE [scientific |-> scientificOf(Val(entity).P225),
                   population |-> populationOf(Val(entity).P1082)]

\* picked.title.match(/^[A-Z][a-z]+ [a-z]+$/)
binomial(title) ==
    \E k \in 3..(Len(title) - 1) :
        /\ title[1] \in UpperCase
        /\ \A j \in 2..(k - 1) : title[j] \in LowerCase
        /\ title[k] = " "
        /\ \A j \in (k + 1)..Len(title) : title[j] \in LowerCase

(***************************************************************************)
(* The upstream sources: what each outbound call can come back with.       *)
(* A response is [net, ok, json]: net = FALSE is a rejected fetch (network *)
(* error), ok is res.ok, json = None is a body res.json() rejects.         *)
(***************************************************************************)
PantheraTigris == <<"P","a","n","t","h","e","r","a"," ","t","i","g","r","i","s">>
BengalTiger == <<"B","e","n","g","a","l"," ","T","i","g","e","r">>
FelisCatus == <<"F","e","l","i","s"," ","c","a","t","u","s">>
ExtractWithCount ==
    <<"p","o","p","u","l","a","t","i","o","n"," ","o","f"," ","a","b","o","u","t"," ",
      "3",",","2","0","0"," ","i","n","d","i","v","i","d","u","a","l","s">>
ExtractPlain == <<"A"," ","b","i","g"," ","c","a","t",".">>
ExtractEstimated ==
    <<"e","s","t","i","m","a","t","e","d"," ","p","o","p","u","l","a","t","i","o","n"," ",
      "1",".","5"," ","m","i","l","l","i","o","n">>
ExtractAfterComma ==
    <<"r","e","m","a","i","n","i","n","g"," ","t","i","g","e","r","s",","," ","p","o","p",
      "u","l","a","t","i","o","n"," ","o","f"," ","a","b","o","u","t"," ","3",",","2","0",
      "0"," ","i","n","d","i","v","i","d","u","a","l","s">>
ExtractBoth ==
    <<"n","u","m","b","e","r","s"," ","1","2",";"," ","e","s","t","i","m","a","t","e","d",
      " ","p","o","p","u","l","a","t","i","o","n"," ","1",".","5"," ","m","i","l","l","i",
      "o","n">>
ExtractMature ==
    <<"p","o","p","u","l","a","t","i","o","n"," ","o","f"," ","3","0","0"," ","m","a","t",
      "u","r","e"," ","i","n","d","i","v","i","d","u","a","l","s">>
ExtractKm ==
    <<"r","e","m","a","i","n","i","n","g"," ","5","0","0"," ","k","m"," ","a","w","a",
      "y">>
ThumbnailUrl == <<"h","t","t","p",":","/","/","w","/","t",".","j","p","g">>

Hit(title, pageid) == [title |-> title, pageid |-> pageid]

OneHit == <<Hit(PantheraTigris, Some(1))>>
SixHits ==
    <<Hit(BengalTiger, None), Hit(PantheraTigris, Some(1)), Hit(<<"C","a","t">>, Some(2)),
      Hit(<<"L","y","n","x">>, None), Hit(<<"P","u","m","a">>, Some(3)),
      Hit(<<"L","i","o","n">>, Some(4))>>

NetworkError == [net |-> FALSE, ok |-> FALSE, json |-> None]
Status(ok, json) == [net |-> TRUE, ok |-> ok, json |-> json]

\* WikipediaSearchResponse: query?.search, absent in an error body
SearchResponses ==
    {NetworkError, Status(FALSE, None), Status(FALSE, Some([search |-> None]))}
    \cup {Status(TRUE, Some([search |-> Some(l)])) : l \in {<<>>, OneHit, SixHits}}

\* WikipediaSummaryResponse
StandardSummary ==
    [type |-> Some("standard"), extract |-> Some(ExtractWithCount), thumbnail |-> Some(ThumbnailUrl)]
BareSummary == [type |-> None, extract |-> None, thumbnail |-> None]
DisambiguationSummary ==
    [type |-> Some("disambiguation"), extract |-> Some(ExtractPlain), thumbnail |-> None]
SummaryResponses ==
    {NetworkError, Status(FALSE, None)}
    \cup {Status(TRUE, Some(b)) : b \in {StandardSummary, BareSummary, DisambiguationSummary}}

\* MWQueryResp: the wikibase_item of each page of query.pages, in key order
PagesResponses ==
    {NetworkError, Status(FALSE, None)}
    \cup {Status(TRUE, Some(ps)) : ps \in {<<>>, <<None, Some("Q1")>>, <<Some("Q2")>>}}

\* WikidataSearchResp: the id of each entity of search, in order
EntitySearchResponses ==
    {NetworkError, Status(FALSE, None)}
    \cup {Status(TRUE, Some(es)) : es \in {<<>>, <<None, Some("Q1")>>, <<Some("Q2"), Some("Q1")>>}}

\* WikidataResp: entities[qid] with its first P225 value and first P1082 amount
Claims(sciVal, amount) == [P225 |-> sciVal, P1082 |-> amount]
Str(text) == Some([string |-> TRUE, value |-> text])
NotAString == Some([string |-> FALSE, value |-> <<>>])
Entities ==
    {Claims(Str(<<" ">> \o FelisCatus \o <<" ">>), Some(<<"+","1","2","0","0","0">>)),
     Claims(Str(FelisCatus), Some(<<"+","5","0","0">>)),
     Claims(None, Some(<<"+","0",".","4">>)),
     Claims(Str(<<" "," ">>), Some(<<"-","5">>)),
     Claims(NotAString, Some(<<"0">>)),
     Claims(None, Some(<<"n","/","a">>)),
     Claims(None, None)}
FactsResponses ==
    {NetworkError, Status(FALSE, None), Status(TRUE, Some([entity |-> None]))}
    \cup {Status(TRUE, Some([entity |-> Some(e)])) : e \in Entities}

\* summaries whose extract is empty, or holds one of the two phrases inside a sentence
EmptyExtractSummary == [type |-> Some("standard"), extract |-> Some(<<>>), thumbnail |-> None]
EstimatedSummary ==
    [type |-> Some("standard"), extract |-> Some(ExtractEstimated), thumbnail |-> None]
AfterCommaSummary ==
    [type |-> Some("standard"), extract |-> Some(ExtractAfterComma), thumbnail |-> Some(ThumbnailUrl)]

\* summaries whose extract has a number before the estimate, or a word after the number
BothSummary == [type |-> Some("standard"), extract |-> Some(ExtractBoth), thumbnail |-> None]
MatureSummary == [type |-> Some("standard"), extract |-> Some(ExtractMature), thumbnail |-> None]
KmSummary == [type |-> Some("standard"), extract |-> Some(ExtractKm), thumbnail |-> None]

\* the responses of each endpoint for the one request a run with a fixed query sends it
UpstreamStates ==
    [search : {Status(TRUE, Some([search |-> Some(OneHit)]))},
     summary : {Status(FALSE, None)}
               \cup {Status(TRUE, Some(b)) :
                        b \in {StandardSummary, BareSummary, DisambiguationSummary,
                               EmptyExtractSummary, EstimatedSummary, AfterCommaSummary,
                               BothSummary, MatureSummary, KmSummary}},
     byPageId : {NetworkError, Status(TRUE, Some(<<>>)), Status(TRUE, Some(<<Some("Q2")>>))},
     byTitle : {Status(TRUE, Some(<<>>))},
     searchTitle : {Status(TRUE, Some(<<>>))},
     searchQuery : {Status(TRUE, Some(<<>>)), Status(TRUE, Some(<<Some("Q2"), Some("Q1")>>))},
     facts : {Status(FALSE, None),
              Status(TRUE, Some([entity |-> Some(Claims(Str(FelisCatus), Some(<<"+","5","0","0">>)))])),
              Status(TRUE, Some([entity |-> Some(Claims(None, None))]))}]

\* parsePopulation(summary.extract) for every extract a summary can carry
Extracts ==
    {Val(resp.json).extract : resp \in {x \in SummaryResponses : IsSome(x.json)}}
    \cup {Val(up.summary.json).extract : up \in {x \in UpstreamStates : IsSome(x.summary.json)}}
popFromSummaryOf == [extract \in Extracts |-> parsePopulation(extract)]

\* what the user types into the search box
Typed == {<<" ","t","i","g","e","r"," ">>}

(***************************************************************************)
(* State of one AddSpeciesDialog and of the runs of handleWikipediaSearch  *)
(***************************************************************************)
\* how many runs of handleWikipediaSearch the model follows at a time
MaxRuns == 1
Runs == 1..MaxRuns

VARIABLES
    open,            \* useState(false): the dialog is open
    wikipediaQuery,  \* useState(""): the text of the search box
    searching,       \* useState(false): disables the Search button
    form,            \* the values of useForm
    lastToast,       \* the title of the last toast shown
    run,             \* per run: the locals of handleWikipediaSearch, the calls it issued
                     \* and the values it wrote with form.setValue
    userId,          \* the userId prop of both dialogs
    species,         \* the species prop of EditSpeciesDialog
    edit,            \* EditSpeciesDialog: open and the values of its useForm
    inserts,         \* the insert requests sent to the species table
    updates,         \* the update requests sent to the species table
    upstream,        \* the response each endpoint gives, when the sources are held fixed
    previous,        \* query, fields and toast of the run before the current one
    chat             \* the chat endpoint: the last request with its reply, and the
                     \* messages sent to the completion provider

resolverVars == <<open, wikipediaQuery, searching, form, lastToast, run>>
storeVars == <<userId, species, edit, inserts, updates>>
rerunVars == <<upstream, previous>>
chatVars == <<chat>>
vars == <<resolverVars, storeVars, rerunVars, chatVars>>

\* const defaultValues
defaultValues ==
    [scientific_name |-> <<>>, common_name |-> None, kingdom |-> "Animalia",
     total_population |-> None, image |-> None, description |-> None]

\* a start of run that forgets form.setValue("description", null)
ClearedKeepsDescription(f) ==
    [f EXCEPT !.scientific_name = <<>>, !.common_name = None,
              !.image = None, !.total_population = None]

\* a start of run that forgets form.setValue("total_population", null)
ClearedKeepsPopulation(f) ==
    [f EXCEPT !.scientific_name = <<>>, !.common_name = None, !.description = None,
              !.image = None]

\* the five form.setValue calls that clear the autofill fields when a run starts
Cleared(f) ==
    [f EXCEPT !.scientific_name = <<>>, !.common_name = None, !.description = None,
              !.image = None, !.total_population = None]

AutofillFields == {"scientific_name", "common_name", "description", "image", "total_population"}

EmptyCandidate == [k \in AutofillFields |-> defaultValues[k]]

IdleRun ==
    [pc |-> "idle", q |-> <<>>, results |-> None, i |-> 0, picked |-> None, summary |-> None,
     qid |-> None, popFromSummary |-> None, popFromWD |-> None, sciFromWD |-> None,
     calls |-> <<>>, candidate |-> EmptyCandidate, toast |-> "none"]

\* the species table's Row of the card the edit dialog belongs to
SpeciesRow(author) ==
    [id |-> 7, author |-> author, scientific_name |-> FelisCatus, common_name |-> None,
     kingdom |-> "Animalia", total_population |-> None, image |-> None, description |-> None]

\* x ?? ""
OrEmpty(o) == IF IsSome(o) THEN Val(o) ELSE <<>>

\* edit.tsx, const initialValues: null columns become "" (an absent population is None here)
initialValues(sp) ==
    [scientific_name |-> sp.scientific_name, common_name |-> OrEmpty(sp.common_name),
     kingdom |-> sp.kingdom, total_population |-> sp.total_population,
     image |-> OrEmpty(sp.image), description |-> OrEmpty(sp.description)]

\* EditSpeciesDialog before it is opened
ClosedEdit(sp) == [open |-> FALSE, form |-> initialValues(sp)]

\* AddSpeciesDialog after construction, with one idle slot per run of slots
InitResolver(slots) ==
    /\ open = FALSE
    /\ wikipediaQuery = <<>>
    /\ searching = FALSE
    /\ form = defaultValues
    /\ lastToast = "none"
    /\ run = [r \in slots |-> IdleRun]

\* the page as loaded for user `user`, showing a card of a species of `author`
InitStore(user, author) ==
    /\ userId = user
    /\ species = SpeciesRow(author)
    /\ edit = ClosedEdit(SpeciesRow(author))
    /\ inserts = <<>>
    /\ updates = <<>>

\* the sources answer freely: no response is held fixed
InitFree ==
    /\ upstream = None
    /\ previous = None

\* the chat endpoint before its first request
InitChat == chat = [last |-> None, calls |-> <<>>]

Init ==
    /\ InitResolver(Runs)
    /\ InitStore("u1", "u1")
    /\ InitFree
    /\ InitChat

(***************************************************************************)
(* The steps of handleWikipediaSearch between two awaits, as functions of  *)
(* a context c = [run, form, searching, lastToast]                         *)
(***************************************************************************)
Ctx(r) == [run |-> run[r], form |-> form, searching |-> searching, lastToast |-> lastToast]

Apply(r, c) ==
    /\ run' = [run EXCEPT ![r] = c.run]
    /\ form' = c.form
    /\ searching' = c.searching
    /\ lastToast' = c.lastToast

\* form.setValue(field, value), also noted in the run's candidate
setValue(c, field, value) ==
    [c EXCEPT !.form = [@ EXCEPT ![field] = value],
              !.run = [@ EXCEPT !.candidate = [@ EXCEPT ![field] = value]]]

\* await fetch(...): the call is issued and the run waits at pc
Issue(c, call, arg, pc) ==
    [c EXCEPT !.run = [@ EXCEPT !.calls = Append(@, [call |-> call, arg |-> arg, res |-> "pending"]),
                                !.pc = pc]]

\* the awaited call has come back with result res
Returned(c, res) ==
    LET n == Len(c.run.calls)
    IN  [c EXCEPT !.run = [@ EXCEPT !.calls = [@ EXCEPT ![n] = [@ EXCEPT !.res = res]]]]

\* toast({ title }) and then the finally block: setSearching(false)
Finish(c, title) ==
    [c EXCEPT !.run = [@ EXCEPT !.toast = title, !.pc = "done"],
              !.lastToast = title,
              !.searching = FALSE]

\* catch (err) { toast "Search error" } finally { setSearching(false) }
Catch(c) == Finish(c, "Search error")

\* a merge that tries the title heuristic before the structured name
MergeTitleFirst(c) ==
    LET rn == c.run
        title == Val(rn.picked).title
        c1 == IF binomial(title)
              THEN setValue(c, "scientific_name", title)
              ELSE IF IsSome(rn.sciFromWD) /\ Val(rn.sciFromWD) # <<>>
                   THEN setValue(c, "scientific_name", Val(rn.sciFromWD))
                   ELSE c
        finalPop == IF IsSome(rn.popFromWD) THEN rn.popFromWD ELSE rn.popFromSummary
        c2 == IF IsSome(finalPop) /\ Val(finalPop) # 0
              THEN setValue(c1, "total_population", finalPop)
              ELSE c1
    IN  Finish(c2, "Autofilled from Wikipedia")

\* the merge of lines 427-445: names, population, success toast
Merge(c) ==
    LET rn == c.run
        title == Val(rn.picked).title
        c1 == IF IsSome(rn.sciFromWD) /\ Val(rn.sciFromWD) # <<>>
              THEN setValue(c, "scientific_name", Val(rn.sciFromWD))
              ELSE IF binomial(title) THEN setValue(c, "scientific_name", title) ELSE c
        \* popFromWD ?? popFromSummary ?? null
        finalPop == IF IsSome(rn.popFromWD) THEN rn.popFromWD ELSE rn.popFromSummary
        \* if (finalPop && Number.isFinite(finalPop))
        c2 == IF IsSome(finalPop) /\ Val(finalPop) # 0
              THEN setValue(c1, "total_population", finalPop)
              ELSE c1
    IN  Finish(c2, "Autofilled from Wikipedia")

\* a chain that throws when no step found an id
AfterChainNeedsId(c) ==
    LET c1 == [c EXCEPT !.run = [@ EXCEPT !.popFromSummary = popFromSummaryOf[Val(c.run.summary).extract]]]
    IN  IF IsSome(c.run.qid)
        THEN Issue(c1, "fetchFromWikidata", Val(c.run.qid), "facts")
        ELSE Catch(c1)

\* lines 416-424 once the chain is over: parse the extract, fetch the facts if there is a qid
AfterChain(c) ==
    LET c1 == [c EXCEPT !.run = [@ EXCEPT !.popFromSummary = popFromSummaryOf[Val(c.run.summary).extract]]]
    IN  IF IsSome(c.run.qid)
        THEN Issue(c1, "fetchFromWikidata", Val(c.run.qid), "facts")
        ELSE Merge(c1)

\* a chain without the if (!qid) guards: every lookup is made, the last one wins
ChainAfterUnguarded(c, step) ==
    CASE step = 1 -> Issue(c, "wikidataQidByTitle", Val(c.run.picked).title, "qidByTitle")
      [] step = 2 -> Issue(c, "searchWikidataQid", Val(c.run.picked).title, "searchTitle")
      [] step = 3 -> Issue(c, "searchWikidataQid", c.run.q, "searchQuery")
      [] OTHER -> AfterChain(c)

\* lines 412-414: the lookups after step `step` of the chain, each behind if (!qid)
ChainAfter(c, step) ==
    IF IsSome(c.run.qid) THEN AfterChain(c)
    ELSE CASE step = 1 -> Issue(c, "wikidataQidByTitle", Val(c.run.picked).title, "qidByTitle")
           [] step = 2 -> Issue(c, "searchWikidataQid", Val(c.run.picked).title, "searchTitle")
           [] step = 3 -> Issue(c, "searchWikidataQid", c.run.q, "searchQuery")
           [] OTHER -> AfterChain(c)

\* a fill that takes the common name from the query instead of the picked title
AfterPickQueryAsName(c) ==
    LET rn == c.run
        summary == Val(rn.summary)
        picked == Val(rn.picked)
        articleDescription == IF IsSome(summary.extract) THEN Val(summary.extract) ELSE <<>>
        articleImage == IF IsSome(summary.thumbnail) THEN Val(summary.thumbnail) ELSE <<>>
        c1 == IF articleDescription # <<>> THEN setValue(c, "description", Some(articleDescription)) ELSE c
        c2 == IF articleImage # <<>> THEN setValue(c1, "image", Some(articleImage)) ELSE c1
        c3 == setValue(c2, "common_name", Some(rn.q))
    IN  IF IsSome(picked.pageid)
        THEN Issue(c3, "wikidataQidByPageId", Val(picked.pageid), "qidByPageId")
        ELSE ChainAfter(c3, 1)

\* lines 398-411: description, image and common name from the summary, then the chain starts
AfterPick(c) ==
    LET rn == c.run
        summary == Val(rn.summary)
        picked == Val(rn.picked)
        \* summary.extract ?? "", summary.thumbnail?.source ?? ""
        articleDescription == IF IsSome(summary.extract) THEN Val(summary.extract) ELSE <<>>
        articleImage == IF IsSome(summary.thumbnail) THEN Val(summary.thumbnail) ELSE <<>>
        articleCommon == picked.title
        c1 == IF articleDescription # <<>> THEN setValue(c, "description", Some(articleDescription)) ELSE c
        c2 == IF articleImage # <<>> THEN setValue(c1, "image", Some(articleImage)) ELSE c1
        c3 == IF articleCommon # <<>> THEN setValue(c2, "common_name", Some(articleCommon)) ELSE c2
    IN  IF IsSome(picked.pageid)
        THEN Issue(c3, "wikidataQidByPageId", Val(picked.pageid), "qidByPageId")
        ELSE ChainAfter(c3, 1)

\* results.slice(0, 5)
TopHits == 5

\* a loop over every hit, without slice(0, 5)
LoopAllHits(c, i) ==
    IF i <= Len(Val(c.run.results))
    THEN Issue([c EXCEPT !.run = [@ EXCEPT !.i = i]], "summary", Val(c.run.results)[i].title, "summary")
    ELSE Issue([c EXCEPT !.run = [@ EXCEPT !.i = 0]], "summary", Val(c.run.results)[1].title, "fallback")

\* the for loop reaches hit i, or ends without a pick and refetches results[0]
Loop(c, i) ==
    IF i <= Min(TopHits, Len(Val(c.run.results)))
    THEN Issue([c EXCEPT !.run = [@ EXCEPT !.i = i]], "summary", Val(c.run.results)[i].title, "summary")
    ELSE Issue([c EXCEPT !.run = [@ EXCEPT !.i = 0]], "summary", Val(c.run.results)[1].title, "fallback")

(***************************************************************************)
(* What the lookups return for a response                                  *)
(***************************************************************************)
\* the first truthy element of a sequence of optional ids, or None
FirstId(ids) ==
    LET at == {x \in 1..Len(ids) : IsSome(ids[x])}
    IN  IF at = {} THEN None ELSE ids[CHOOSE a \in at : \A b \in at : a <= b]

\* wikidataQidByPageId / wikidataQidByTitle: null unless ok, else the first wikibase_item
wikidataQidByPage(resp) == IF ~resp.ok THEN None ELSE FirstId(Val(resp.json))

\* searchWikidataQid: null unless ok, else json.search?.[0]?.id ?? null
searchWikidataQid(resp) ==
    IF ~resp.ok THEN None
    ELSE IF Val(resp.json) = <<>> THEN None ELSE Val(resp.json)[1]

\* how an id lookup is noted in the run's calls
IdResult(qid) == IF IsSome(qid) THEN Val(qid) ELSE "none"

\* a loop that skips failed fetches only and so accepts a disambiguation page
SkippedUnlessFetched(resp) == ~resp.ok

\* the for loop's test of one summary response: !sRes.ok or type "disambiguation" is skipped
Skipped(resp) == ~resp.ok \/ Val(resp.json).type = Some("disambiguation")

SummaryResult(resp) ==
    IF ~resp.ok THEN "notok"
    ELSE IF Val(resp.json).type = Some("disambiguation") THEN "disambiguation" ELSE "ok"

(***************************************************************************)
(* Actions                                                                 *)
(***************************************************************************)
\* handleOpenChange(next)
handleOpenChange(next) ==
    /\ open = ~next
    /\ open' = next
    /\ IF ~next
       THEN /\ form' = defaultValues
            /\ wikipediaQuery' = <<>>
            /\ searching' = FALSE
       ELSE UNCHANGED <<form, wikipediaQuery, searching>>
    /\ UNCHANGED <<lastToast, run>>

\* onChange of the search box: setWikipediaQuery(e.target.value)
setWikipediaQuery(text) ==
    /\ open
    /\ wikipediaQuery # text
    /\ wikipediaQuery' = text
    /\ UNCHANGED <<open, searching, form, lastToast, run>>

\* the Search button (disabled while searching) with a blank query: lines 325-333
EmptySearch ==
    /\ open /\ ~searching
    /\ trim(wikipediaQuery) = <<>>
    /\ lastToast' = "Empty search"
    /\ UNCHANGED <<open, wikipediaQuery, searching, form, run>>

\* a run slot that is not in flight; the lowest one is taken
Free(r) == run[r].pc \in {"idle", "done"}

\* the Search button with a non-blank query: lines 325-350, up to the first await
handleWikipediaSearch(r) ==
    /\ open /\ ~searching
    /\ trim(wikipediaQuery) # <<>>
    /\ Free(r) /\ \A r2 \in Runs : Free(r2) => r <= r2
    /\ searching' = TRUE
    /\ form' = Cleared(form)
    /\ run' = [run EXCEPT ![r] =
                  [IdleRun EXCEPT !.pc = "search", !.q = trim(wikipediaQuery),
                                  !.candidate = [k \in AutofillFields |-> Cleared(form)[k]],
                                  !.calls = <<[call |-> "search", arg |-> trim(wikipediaQuery),
                                               res |-> "pending"]>>]]
    /\ UNCHANGED <<open, wikipediaQuery, lastToast>>

\* lines 346-361: the search call comes back
SearchReturns(r, resp) ==
    /\ run[r].pc = "search"
    /\ LET c == Returned(Ctx(r), IF ~resp.net THEN "throw" ELSE IF resp.ok THEN "ok" ELSE "notok")
           \* searchData.query?.search ?? []
           hits == IF IsSome(Val(resp.json).search) THEN Val(Val(resp.json).search) ELSE <<>>
       IN  Apply(r, IF ~resp.net \/ ~IsSome(resp.json) THEN Catch(c)
                    ELSE IF Len(hits) = 0
                         THEN Finish([c EXCEPT !.run = [@ EXCEPT !.results = Some(hits)]], "No article found")
                    ELSE Loop([c EXCEPT !.run = [@ EXCEPT !.results = Some(hits)]], 1))
    /\ UNCHANGED <<open, wikipediaQuery>>

\* lines 367-377: the summary of hit i comes back
SummaryReturns(r, resp) ==
    /\ run[r].pc = "summary"
    /\ LET c == Ctx(r)
           i == run[r].i
       IN  Apply(r, IF ~resp.net THEN Catch(Returned(c, "throw"))
                    ELSE IF Skipped(resp) THEN Loop(Returned(c, SummaryResult(resp)), i + 1)
                    ELSE AfterPick([Returned(c, SummaryResult(resp)) EXCEPT
                                       !.run = [@ EXCEPT !.picked = Some(Val(c.run.results)[i]),
                                                         !.summary = resp.json]]))
    /\ UNCHANGED <<open, wikipediaQuery>>

\* a fallback that throws on a non-success status instead of reporting it
FallbackReturnsThrowing(r, resp) ==
    /\ run[r].pc = "fallback"
    /\ LET c == Ctx(r)
       IN  Apply(r, IF ~resp.net THEN Catch(Returned(c, "throw"))
                    ELSE IF ~resp.ok THEN Catch(Returned(c, "notok"))
                    ELSE AfterPick([Returned(c, SummaryResult(resp)) EXCEPT
                                       !.run = [@ EXCEPT !.picked = Some(Val(c.run.results)[1]),
                                                         !.summary = resp.json]]))
    /\ UNCHANGED <<open, wikipediaQuery>>

\* lines 380-395: the refetched summary of the first hit comes back
FallbackReturns(r, resp) ==
    /\ run[r].pc = "fallback"
    /\ LET c == Ctx(r)
       IN  Apply(r, IF ~resp.net THEN Catch(Returned(c, "throw"))
                    ELSE IF ~resp.ok THEN Finish(Returned(c, "notok"), "Error fetching article")
                    ELSE AfterPick([Returned(c, SummaryResult(resp)) EXCEPT
                                       !.run = [@ EXCEPT !.picked = Some(Val(c.run.results)[1]),
                                                         !.summary = resp.json]]))
    /\ UNCHANGED <<open, wikipediaQuery>>

\* an id lookup at pc, step `step` of the chain, comes back and returns qid
IdReturns(r, pc, step, resp, qid) ==
    /\ run[r].pc = pc
    /\ LET c == Ctx(r)
       IN  Apply(r, IF ~resp.net THEN Catch(Returned(c, "throw"))
                    ELSE ChainAfter([Returned(c, IdResult(qid)) EXCEPT !.run = [@ EXCEPT !.qid = qid]],
                                    step))
    /\ UNCHANGED <<open, wikipediaQuery>>

\* lines 409-411
QidByPageIdReturns(r, resp) == IdReturns(r, "qidByPageId", 1, resp, wikidataQidByPage(resp))
\* line 412
QidByTitleReturns(r, resp) == IdReturns(r, "qidByTitle", 2, resp, wikidataQidByPage(resp))
\* line 413
SearchTitleReturns(r, resp) == IdReturns(r, "searchTitle", 3, resp, searchWikidataQid(resp))
\* line 414
SearchQueryReturns(r, resp) == IdReturns(r, "searchQuery", 4, resp, searchWikidataQid(resp))

\* lines 420-445: the facts come back, then the merge
FactsReturns(r, resp) ==
    /\ run[r].pc = "facts"
    /\ LET c == Ctx(r)
           facts == fetchFromWikidata(resp)
       IN  Apply(r, IF ~resp.net THEN Catch(Returned(c, "throw"))
                    ELSE Merge([Returned(c, IF resp.ok THEN "ok" ELSE "notok") EXCEPT
                                   !.run = [@ EXCEPT !.sciFromWD = facts.scientific,
                                                     !.popFromWD = facts.population]]))
    /\ UNCHANGED <<open, wikipediaQuery>>

(***************************************************************************)
(* The record store: the submit of AddSpeciesDialog and EditSpeciesDialog  *)
(***************************************************************************)
MaxWrites == 2

\* z.string().url(), for the texts used here
IsUrl(text) ==
    \/ MatchesAt(text, 1, <<"h","t","t","p",":","/","/">>) /\ Len(text) > 7
    \/ MatchesAt(text, 1, <<"h","t","t","p","s",":","/","/">>) /\ Len(text) > 8

\* .transform((val) => (!val || val.trim() === "" ? null : val.trim()))
NullIfBlank(o) == IF IsSome(o) /\ trim(Val(o)) # <<>> THEN Some(trim(Val(o))) ELSE None

\* speciesSchema of the add dialog accepts the values f
Validates(f) ==
    /\ trim(f.scientific_name) # <<>>
    /\ IsSome(f.total_population) => Val(f.total_population) >= 1
    /\ IsSome(f.image) => IsUrl(Val(f.image))

\* the input speciesSchema hands to onSubmit: the values after its transforms
Parsed(f) ==
    [scientific_name |-> trim(f.scientific_name), common_name |-> NullIfBlank(f.common_name),
     kingdom |-> f.kingdom, total_population |-> f.total_population,
     image |-> NullIfBlank(f.image), description |-> NullIfBlank(f.description)]

\* the row onSubmit inserts
InsertedRow(input) ==
    [author |-> userId, common_name |-> input.common_name, description |-> input.description,
     kingdom |-> input.kingdom, scientific_name |-> input.scientific_name,
     total_population |-> input.total_population, image |-> input.image]

\* a request whose page has been reloaded is never answered to
Abandoned(requests) ==
    [k \in 1..Len(requests) |->
        IF requests[k].res = "pending" THEN [requests[k] EXCEPT !.res = "lost"] ELSE requests[k]]

\* window.location.reload(): every component is constructed again, the runs in flight are gone
Reloaded ==
    /\ open' = FALSE
    /\ wikipediaQuery' = <<>>
    /\ searching' = FALSE
    /\ form' = defaultValues
    /\ run' = [r \in DOMAIN run |-> IdleRun]
    /\ edit' = ClosedEdit(species)

\* {...field} of a FormField: the user changes a value of the add form
onChange(field, value) ==
    /\ open
    /\ form[field] # value
    /\ form' = [form EXCEPT ![field] = value]
    /\ UNCHANGED <<open, wikipediaQuery, searching, lastToast, run>>

\* form.handleSubmit(onSubmit) up to the await of the insert: lines 460-472
handleSubmit ==
    /\ open
    /\ Len(inserts) < MaxWrites
    /\ inserts' = IF Validates(form)
                  THEN Append(inserts, [row |-> InsertedRow(Parsed(form)), res |-> "pending"])
                  ELSE inserts
    /\ UNCHANGED <<resolverVars, userId, species, edit, updates>>

\* an onSubmit that sends the insert again when it failed
InsertReturnsRetrying(k, error) ==
    /\ k \in 1..Len(inserts)
    /\ inserts[k].res = "pending"
    /\ IF error
       THEN /\ lastToast' = "Something went wrong."
            /\ inserts' = Append([inserts EXCEPT ![k].res = "error"], inserts[k])
            /\ UNCHANGED <<open, wikipediaQuery, searching, form, run, edit, updates>>
       ELSE /\ Reloaded
            /\ lastToast' = "New species added!"
            /\ inserts' = Abandoned([inserts EXCEPT ![k].res = "ok"])
            /\ updates' = Abandoned(updates)
    /\ UNCHANGED <<userId, species>>

\* lines 474-490: the insert comes back
InsertReturns(k, error) ==
    /\ k \in 1..Len(inserts)
    /\ inserts[k].res = "pending"
    /\ IF error
       THEN /\ lastToast' = "Something went wrong."
            /\ inserts' = [inserts EXCEPT ![k].res = "error"]
            /\ UNCHANGED <<open, wikipediaQuery, searching, form, run, edit, updates>>
       ELSE /\ Reloaded
            /\ lastToast' = "New species added!"
            /\ inserts' = Abandoned([inserts EXCEPT ![k].res = "ok"])
            /\ updates' = Abandoned(updates)
    /\ UNCHANGED <<userId, species>>

\* edit.tsx line 67: the dialog is rendered for the author of the species only
Owner == userId = species.author

\* an edit dialog that is rendered for every user
editHandleOpenChangeAnyUser(next) ==
    /\ edit.open = ~next
    /\ edit' = [open |-> next, form |-> initialValues(species)]
    /\ UNCHANGED <<resolverVars, userId, species, inserts, updates>>

\* edit.tsx handleOpenChange and the useEffect on open: both reset the form
editHandleOpenChange(next) ==
    /\ Owner
    /\ edit.open = ~next
    /\ edit' = [open |-> next, form |-> initialValues(species)]
    /\ UNCHANGED <<resolverVars, userId, species, inserts, updates>>

\* the user changes a value of the edit form
editOnChange(field, value) ==
    /\ Owner
    /\ edit.open
    /\ edit.form[field] # value
    /\ edit' = [edit EXCEPT !.form = [@ EXCEPT ![field] = value]]
    /\ UNCHANGED <<resolverVars, userId, species, inserts, updates>>

\* speciesSchema of edit.tsx accepts the values f
editValidates(f) ==
    /\ trim(f.scientific_name) # <<>>
    /\ IsSome(f.total_population) => Val(f.total_population) > 0
    /\ IsUrl(f.image)

\* edit.tsx: the transforms of the schema, then sanitizedInput ("" becomes null)
sanitizedInput(f) ==
    [scientific_name |-> trim(f.scientific_name), common_name |-> NullIfBlank(Some(f.common_name)),
     kingdom |-> f.kingdom, total_population |-> f.total_population,
     image |-> NullIfBlank(Some(f.image)), description |-> NullIfBlank(Some(f.description))]

\* edit.tsx lines 80-90: update(sanitizedInput).eq("id", species.id).eq("author", userId)
editHandleSubmit ==
    /\ Owner
    /\ edit.open
    /\ Len(updates) < MaxWrites
    /\ updates' = IF editValidates(edit.form)
                  THEN Append(updates, [values |-> sanitizedInput(edit.form), id |-> species.id,
                                        author |-> userId, res |-> "pending"])
                  ELSE updates
    /\ UNCHANGED <<resolverVars, userId, species, edit, inserts>>

\* edit.tsx lines 91-97: the update comes back
UpdateReturns(k, error) ==
    /\ k \in 1..Len(updates)
    /\ updates[k].res = "pending"
    /\ IF error
       THEN /\ lastToast' = "Error updating species"
            /\ updates' = [updates EXCEPT ![k].res = "error"]
            /\ UNCHANGED <<open, wikipediaQuery, searching, form, run, edit, inserts>>
       ELSE /\ Reloaded
            /\ lastToast' = "Species updated!"
            /\ updates' = Abandoned([updates EXCEPT ![k].res = "ok"])
            /\ inserts' = Abandoned(inserts)
    /\ UNCHANGED <<userId, species>>

(***************************************************************************)
(* The resolver alone, every source answering freely                       *)
(***************************************************************************)
Next ==
    \/ \E next \in BOOLEAN : handleOpenChange(next) /\ UNCHANGED <<storeVars, rerunVars, chatVars>>
    \/ \E text \in Typed : setWikipediaQuery(text) /\ UNCHANGED <<storeVars, rerunVars, chatVars>>
    \/ EmptySearch /\ UNCHANGED <<storeVars, rerunVars, chatVars>>
    \/ \E r \in Runs : handleWikipediaSearch(r) /\ UNCHANGED <<storeVars, rerunVars, chatVars>>
    \/ \E r \in Runs, resp \in SearchResponses :
          SearchReturns(r, resp) /\ UNCHANGED <<storeVars, rerunVars, chatVars>>
    \/ \E r \in Runs, resp \in SummaryResponses :
          SummaryReturns(r, resp) /\ UNCHANGED <<storeVars, rerunVars, chatVars>>
    \/ \E r \in Runs, resp \in SummaryResponses :
          FallbackReturns(r, resp) /\ UNCHANGED <<storeVars, rerunVars, chatVars>>
    \/ \E r \in Runs, resp \in PagesResponses :
          QidByPageIdReturns(r, resp) /\ UNCHANGED <<storeVars, rerunVars, chatVars>>
    \/ \E r \in Runs, resp \in PagesResponses :
          QidByTitleReturns(r, resp) /\ UNCHANGED <<storeVars, rerunVars, chatVars>>
    \/ \E r \in Runs, resp \in EntitySearchResponses :
          SearchTitleReturns(r, resp) /\ UNCHANGED <<storeVars, rerunVars, chatVars>>
    \/ \E r \in Runs, resp \in EntitySearchResponses :
          SearchQueryReturns(r, resp) /\ UNCHANGED <<storeVars, rerunVars, chatVars>>
    \/ \E r \in Runs, resp \in FactsResponses :
          FactsReturns(r, resp) /\ UNCHANGED <<storeVars, rerunVars, chatVars>>

(***************************************************************************)
(* The two dialogs and the record store, no search running                 *)
(***************************************************************************)
Users == {"u1", "u2"}

\* what the user types into the fields of the add form
AddValues ==
    [scientific_name |-> {<<>>, <<" ">> \o FelisCatus},
     total_population |-> {None, Some(0)}]

\* what the user types into the fields of the edit form
EditValues ==
    [scientific_name |-> {PantheraTigris},
     image |-> {<<>>, ThumbnailUrl}]

InitRecords ==
    /\ InitResolver(Runs)
    /\ \E user \in Users, author \in Users : InitStore(user, author)
    /\ InitFree
    /\ InitChat

NextRecords ==
    \/ \E next \in BOOLEAN : handleOpenChange(next) /\ UNCHANGED <<storeVars, rerunVars, chatVars>>
    \/ \E field \in DOMAIN AddValues : \E value \in AddValues[field] :
          onChange(field, value) /\ UNCHANGED <<storeVars, rerunVars, chatVars>>
    \/ handleSubmit /\ UNCHANGED <<rerunVars, chatVars>>
    \/ \E k \in 1..MaxWrites, error \in BOOLEAN : InsertReturns(k, error) /\ UNCHANGED <<rerunVars, chatVars>>
    \/ \E next \in BOOLEAN : editHandleOpenChange(next) /\ UNCHANGED <<rerunVars, chatVars>>
    \/ \E field \in DOMAIN EditValues : \E value \in EditValues[field] :
          editOnChange(field, value) /\ UNCHANGED <<rerunVars, chatVars>>
    \/ editHandleSubmit /\ UNCHANGED <<rerunVars, chatVars>>
    \/ \E k \in 1..MaxWrites, error \in BOOLEAN : UpdateReturns(k, error) /\ UNCHANGED <<rerunVars, chatVars>>

Records == InitRecords /\ [][NextRecords]_vars

(***************************************************************************)
(* Runs one after the other against sources whose responses are held fixed *)
(***************************************************************************)
\* two ways to type the same query
SameQueries == Typed \cup {<<"t","i","g","e","r">>}

\* what the user types into the fields between two runs
BetweenRuns ==
    [description |-> {Some(<<"x">>)},
     total_population |-> {Some(7)}]

InitRerun ==
    /\ InitResolver(Runs)
    /\ InitStore("u1", "u1")
    /\ upstream \in {Some(up) : up \in UpstreamStates}
    /\ previous = None
    /\ InitChat

\* what the run that has ended leaves behind when the next one starts
Remembered(r) ==
    IF run[r].pc = "done"
    THEN Some([q |-> run[r].q, candidate |-> run[r].candidate, toast |-> run[r].toast])
    ELSE previous

\* the dialog is opened, closed and edited only while no run is in flight
NextRerun ==
    \/ \E next \in BOOLEAN :
          /\ \A r \in Runs : Free(r)
          /\ handleOpenChange(next)
          /\ UNCHANGED <<storeVars, rerunVars, chatVars>>
    \/ \E text \in SameQueries : setWikipediaQuery(text) /\ UNCHANGED <<storeVars, rerunVars, chatVars>>
    \/ \E field \in DOMAIN BetweenRuns : \E value \in BetweenRuns[field] :
          /\ \A r \in Runs : Free(r)
          /\ onChange(field, value)
          /\ UNCHANGED <<storeVars, rerunVars, chatVars>>
    \/ \E r \in Runs :
          /\ handleWikipediaSearch(r)
          /\ previous' = Remembered(r)
          /\ UNCHANGED <<storeVars, upstream, chatVars>>
    \/ \E r \in Runs : SearchReturns(r, Val(upstream).search) /\ UNCHANGED <<storeVars, rerunVars, chatVars>>
    \/ \E r \in Runs : SummaryReturns(r, Val(upstream).summary) /\ UNCHANGED <<storeVars, rerunVars, chatVars>>
    \/ \E r \in Runs : FallbackReturns(r, Val(upstream).summary) /\ UNCHANGED <<storeVars, rerunVars, chatVars>>
    \/ \E r \in Runs : QidByPageIdReturns(r, Val(upstream).byPageId) /\ UNCHANGED <<storeVars, rerunVars, chatVars>>
    \/ \E r \in Runs : QidByTitleReturns(r, Val(upstream).byTitle) /\ UNCHANGED <<storeVars, rerunVars, chatVars>>
    \/ \E r \in Runs : SearchTitleReturns(r, Val(upstream).searchTitle) /\ UNCHANGED <<storeVars, rerunVars, chatVars>>
    \/ \E r \in Runs : SearchQueryReturns(r, Val(upstream).searchQuery) /\ UNCHANGED <<storeVars, rerunVars, chatVars>>
    \/ \E r \in Runs : FactsReturns(r, Val(upstream).facts) /\ UNCHANGED <<storeVars, rerunVars, chatVars>>

Rerun == InitRerun /\ [][NextRerun]_vars

(***************************************************************************)
(* The chat endpoint: POST of api/chat/route.ts and generateResponse        *)
(***************************************************************************)
\* how many provider calls the model follows
MaxCalls == 2

\* the alternatives of SPECIES_REGEX, in order
SPECIES_REGEX ==
    << <<"s","p","e","c","i","e","s">>, <<"a","n","i","m","a","l">>,
       <<"h","a","b","i","t","a","t">>, <<"d","i","e","t">>,
       <<"c","o","n","s","e","r","v","a","t","i","o","n">>,
       <<"e","n","d","a","n","g","e","r","e","d">>, <<"i","u","c","n">>,
       <<"t","a","x","o","n","o","m","y">>, <<"g","e","n","u","s">>,
       <<"f","a","m","i","l","y">>, <<"k","i","n","g","d","o","m">>,
       <<"r","a","n","g","e">>, <<"d","i","s","t","r","i","b","u","t","i","o","n">>,
       <<"e","c","o","s","y","s","t","e","m">>, <<"p","r","e","d","a","t","o","r">>,
       <<"p","r","e","y">>, <<"m","a","m","m","a","l">>, <<"b","i","r","d">>,
       <<"r","e","p","t","i","l","e">>, <<"a","m","p","h","i","b","i","a","n">>,
       <<"f","i","s","h">>, <<"i","n","s","e","c","t">>,
       <<"a","r","a","c","h","n","i","d">>, <<"s","p","e","e","d">>,
       <<"n","o","c","t","u","r","n","a","l">>, <<"d","i","u","r","n","a","l">> >>

\* the alternatives of the regular expression of isSpeciesTopic, in order
TopicWords ==
    << <<"s","p","e","c","i","e","s">>, <<"a","n","i","m","a","l">>,
       <<"h","a","b","i","t","a","t">>, <<"d","i","e","t">>,
       <<"c","o","n","s","e","r","v","a","t","i","o","n">>,
       <<"e","n","d","a","n","g","e","r","e","d">>, <<"i","u","c","n">>,
       <<"t","a","x","o","n","o","m","y">>, <<"g","e","n","u","s">>,
       <<"f","a","m","i","l","y">>, <<"r","a","n","g","e">>,
       <<"d","i","s","t","r","i","b","u","t","i","o","n">>,
       <<"e","c","o","s","y","s","t","e","m">>, <<"p","r","e","d","a","t","o","r">>,
       <<"p","r","e","y">>, <<"s","p","e","e","d">>,
       <<"n","o","c","t","u","r","n","a","l">>, <<"d","i","u","r","n","a","l">>,
       <<"e","x","t","i","n","c","t">>, <<"s","t","a","t","u","s">> >>

\* re.test(text) for a regular expression that is an alternation of literal words with
\* the i flag
test(alternatives, text) ==
    \E x \in 1..Len(alternatives), i \in 1..Len(text) : MatchesAt(text, i, alternatives[x])

\* function isSpeciesTopic(text)
isSpeciesTopic(text) == test(TopicWords, text)

OffTopicReply == "I'm a species-focused chatbot."

\* the body of a request: json = FALSE when req.json() rejects, else its message field
Body(json, message) == [json |-> json, message |-> message]
Messages ==
    {<<>>, <<" ">>, <<"h","e","l","l","o">>, <<"b","i","r","d">>, <<"e","x","t","i","n","c","t">>,
     <<" ","D","i","e","t"," ","o","f"," ","a"," ","F","I","S","H"," ">>}
Bodies ==
    {Body(FALSE, None), Body(TRUE, None), Body(TRUE, NotAString)}
    \cup {Body(TRUE, Str(m)) : m \in Messages}

\* what the provider answers: a rejected fetch, a non-success status, a body that is not
\* JSON, not a completion, a completion without content, a completion with content
ProviderContent == <<" ","A"," ","f","i","s","h","."," ">>
Completion(valid, content) == [completion |-> valid, content |-> content]
ProviderResponses ==
    {NetworkError, Status(FALSE, None), Status(TRUE, None)}
    \cup {Status(TRUE, Some(c)) :
            c \in {Completion(FALSE, None), Completion(TRUE, None),
                   Completion(TRUE, Some(ProviderContent))}}

\* a reply of generateResponse: a fixed text, or the content of the completion
Fixed(text) == [text |-> text, content |-> <<>>, called |-> FALSE]
AfterCall(text, content) == [text |-> text, content |-> content, called |-> TRUE]

\* generateResponse(message), with the environment and the provider's answer as inputs
generateResponse(message, apiKey, production, resp) ==
    LET msg == trim(message)
    IN  IF msg = <<>> THEN Fixed("Ask about a species")
        ELSE IF ~isSpeciesTopic(msg) THEN Fixed(OffTopicReply)
        ELSE IF ~apiKey THEN Fixed("This chatbot isn't configured with an API key yet.")
        ELSE IF ~resp.net \/ (resp.ok /\ ~IsSome(resp.json))
             THEN AfterCall(IF production
                            THEN "Sorry, I ran into a temporary issue generating a response."
                            ELSE "Network or provider error (see server logs).", <<>>)
        ELSE IF ~resp.ok
             THEN AfterCall(IF production
                            THEN "Sorry, my provider returned an error. Please try again."
                            ELSE "Provider error", <<>>)
        ELSE IF ~Val(resp.json).completion
             THEN AfterCall("Sorry, I couldn't parse the provider response.", <<>>)
        ELSE IF ~IsSome(Val(resp.json).content)
             THEN AfterCall("Sorry, I couldn't generate a response.", <<>>)
        ELSE AfterCall("", trim(Val(Val(resp.json).content)))

\* a test of the message that only asks for a string
NotAStringMessage(message) == ~IsSome(message) \/ ~Val(message).string

\* typeof message !== "string" || !message.trim()
InvalidMessage(message) ==
    ~IsSome(message) \/ ~Val(message).string \/ trim(Val(message).value) = <<>>

\* the NextResponse of POST for one request
Respond(body, apiKey, production, resp) ==
    IF ~body.json
    THEN [status |-> 400, error |-> "Invalid JSON body.", response |-> Fixed("")]
    ELSE IF InvalidMessage(body.message)
    THEN [status |-> 400, error |-> "Missing or invalid 'message'.", response |-> Fixed("")]
    ELSE IF ~test(SPECIES_REGEX, Val(body.message).value)
    THEN [status |-> 200, error |-> "", response |-> Fixed(OffTopicReply)]
    ELSE [status |-> 200, error |-> "",
          response |-> generateResponse(Val(body.message).value, apiKey, production, resp)]

\* export async function POST(req): one request, handled to its response
POST(body, apiKey, production, resp) ==
    /\ Len(chat.calls) < MaxCalls
    /\ LET reply == Respond(body, apiKey, production, resp)
       IN  chat' = [last |-> Some([body |-> body, apiKey |-> apiKey, production |-> production,
                                   resp |-> resp, reply |-> reply]),
                    calls |-> IF reply.response.called
                              THEN Append(chat.calls, trim(Val(body.message).value))
                              ELSE chat.calls]
    /\ UNCHANGED <<resolverVars, storeVars, rerunVars>>

InitChatOnly ==
    /\ InitResolver(Runs)
    /\ InitStore("u1", "u1")
    /\ InitFree
    /\ InitChat

NextChat ==
    \E body \in Bodies, apiKey \in BOOLEAN, production \in BOOLEAN, resp \in ProviderResponses :
       POST(body, apiKey, production, resp)

Chat == InitChatOnly /\ [][NextChat]_vars

(***************************************************************************)
(* Searches that overlap, and the submit of the add form                   *)
(***************************************************************************)
\* one slot more than Runs: a second search can start while the first is in flight
Slots == 1..(MaxRuns + 1)

QuickSearches == {Status(TRUE, Some([search |-> Some(OneHit)]))}
QuickSummaries == {Status(FALSE, None), Status(TRUE, Some(StandardSummary))}
QuickPages == {Status(TRUE, Some(<<Some("Q2")>>))}
QuickFacts == {Status(TRUE, Some([entity |-> Some(Claims(Str(FelisCatus), Some(<<"+","5","0","0">>)))]))}

InitConcurrent ==
    /\ InitResolver(Slots)
    /\ InitStore("u1", "u1")
    /\ InitFree
    /\ InitChat

\* each slot is taken once per page load, in order: a higher slot holds a newer run
NextConcurrent ==
    \/ \E next \in BOOLEAN : handleOpenChange(next) /\ UNCHANGED <<storeVars, rerunVars, chatVars>>
    \/ \E text \in Typed : setWikipediaQuery(text) /\ UNCHANGED <<storeVars, rerunVars, chatVars>>
    \/ \E r \in Slots :
          run[r].pc = "idle" /\ handleWikipediaSearch(r) /\ UNCHANGED <<storeVars, rerunVars, chatVars>>
    \/ \E r \in Slots, resp \in QuickSearches :
          SearchReturns(r, resp) /\ UNCHANGED <<storeVars, rerunVars, chatVars>>
    \/ \E r \in Slots, resp \in QuickSummaries :
          SummaryReturns(r, resp) /\ UNCHANGED <<storeVars, rerunVars, chatVars>>
    \/ \E r \in Slots, resp \in QuickSummaries :
          FallbackReturns(r, resp) /\ UNCHANGED <<storeVars, rerunVars, chatVars>>
    \/ \E r \in Slots, resp \in QuickPages :
          QidByPageIdReturns(r, resp) /\ UNCHANGED <<storeVars, rerunVars, chatVars>>
    \/ \E r \in Slots, resp \in QuickFacts :
          FactsReturns(r, resp) /\ UNCHANGED <<storeVars, rerunVars, chatVars>>
    \/ handleSubmit /\ UNCHANGED <<rerunVars, chatVars>>
    \/ \E k \in 1..MaxWrites, error \in BOOLEAN : InsertReturns(k, error) /\ UNCHANGED <<rerunVars, chatVars>>

Concurrent == InitConcurrent /\ [][NextConcurrent]_vars

Spec == Init /\ [][Next]_vars

\* the call that run r awaits comes back, with any response
Returns(r) ==
    \/ \E resp \in SearchResponses : SearchReturns(r, resp) /\ UNCHANGED <<storeVars, rerunVars, chatVars>>
    \/ \E resp \in SummaryResponses : SummaryReturns(r, resp) /\ UNCHANGED <<storeVars, rerunVars, chatVars>>
    \/ \E resp \in SummaryResponses : FallbackReturns(r, resp) /\ UNCHANGED <<storeVars, rerunVars, chatVars>>
    \/ \E resp \in PagesResponses : QidByPageIdReturns(r, resp) /\ UNCHANGED <<storeVars, rerunVars, chatVars>>
    \/ \E resp \in PagesResponses : QidByTitleReturns(r, resp) /\ UNCHANGED <<storeVars, rerunVars, chatVars>>
    \/ \E resp \in EntitySearchResponses :
          SearchTitleReturns(r, resp) /\ UNCHANGED <<storeVars, rerunVars, chatVars>>
    \/ \E resp \in EntitySearchResponses :
          SearchQueryReturns(r, resp) /\ UNCHANGED <<storeVars, rerunVars, chatVars>>
    \/ \E resp \in FactsResponses : FactsReturns(r, resp) /\ UNCHANGED <<storeVars, rerunVars, chatVars>>

\* every outbound call eventually returns or throws
Live == Spec /\ \A r \in Runs : WF_vars(Returns(r))

(***************************************************************************)
(* Properties                                                              *)
(***************************************************************************)
Success == "Autofilled from Wikipedia"
NoArticleFound == "No article found"
SummaryUnavailable == "Error fetching article"
SearchError == "Search error"

Done(r) == run[r].pc = "done"
IsSummaryCall(c) == c.call = "summary"
IsIdLookup(c) == c.call \in {"wikidataQidByPageId", "wikidataQidByTitle", "searchWikidataQid"}
IsFactsCall(c) == c.call = "fetchFromWikidata"
SummaryCalls(r) == SelectSeq(run[r].calls, IsSummaryCall)
IdLookups(r) == SelectSeq(run[r].calls, IsIdLookup)
FactsCalls(r) == SelectSeq(run[r].calls, IsFactsCall)
\* a summary that was fetched but cannot be accepted by the loop
Unusable == {"notok", "disambiguation"}
\* no other run has been started in this dialog
Alone(r) == \A r2 \in Runs \ {r} : run[r2].pc = "idle"
HasHits(r) == IsSome(run[r].results) /\ Val(run[r].results) # <<>>

\* C1: when the search call succeeds with zero hits the run ends with "No article
\* found", the search is the only call it ever issued (no summary fetch, no id lookup,
\* no facts fetch) and the five autofill fields it leaves are all empty / null.
C1_ZeroHitsEndEmpty ==
    \A r \in Runs :
        (Done(r) /\ run[r].calls[1].res = "ok" /\ run[r].results = Some(<<>>))
        => /\ run[r].toast = NoArticleFound
           /\ Len(run[r].calls) = 1
           /\ run[r].candidate = EmptyCandidate
           /\ Alone(r) => \A k \in AutofillFields : form[k] = defaultValues[k]

C1_Witness ==
    \E r \in Runs :
        /\ Done(r) /\ run[r].calls[1].res = "ok" /\ run[r].results = Some(<<>>)
        /\ run[r].toast = NoArticleFound
        /\ run[r].q = <<"t","i","g","e","r">>

\* C2: summaries are fetched in relevance order from the first hit on; every hit
\* fetched before the last one was unusable (non-success or disambiguation); a hit of
\* the first five whose summary comes back successful and not a disambiguation is the
\* pick, and nothing is fetched after it; no hit from the sixth on is ever fetched (the
\* only fetch after the first five is the refetch of the first hit).
C2_FirstUsableOfTopFive ==
    \A r \in Runs :
        HasHits(r) =>
        LET hits == Val(run[r].results)
            S == SummaryCalls(r)
            n == Min(5, Len(hits))
        IN  /\ Len(S) <= n + 1
            /\ \A k \in 1..Len(S) :
                  /\ k <= n => S[k].arg = hits[k].title
                  /\ k < Len(S) => S[k].res \in Unusable
                  /\ (k <= n /\ S[k].res = "ok") => run[r].picked = Some(hits[k])
                  /\ \A j \in 6..Len(hits) : S[k].arg # hits[j].title
            /\ Len(S) = n + 1 => S[n + 1].arg = hits[1].title
            /\ (IsSome(run[r].picked) /\ Len(S) <= n)
               => /\ S[Len(S)].res = "ok"
                  /\ run[r].picked = Some(hits[Len(S)])

C2_Witness ==
    \E r \in Runs :
        /\ HasHits(r) /\ Len(Val(run[r].results)) = 6
        /\ Len(SummaryCalls(r)) = 3
        /\ SummaryCalls(r)[1].res = "notok"
        /\ SummaryCalls(r)[2].res = "disambiguation"
        /\ SummaryCalls(r)[3].res = "ok"
        /\ run[r].picked = Some(Val(run[r].results)[3])
        /\ Done(r)

\* C3: when each of the top five hits was unusable and the refetch of the first hit
\* comes back successful, the run ends with the success notification and a candidate
\* taken from the first hit, never with a failure.
C3_FallbackNeverFails ==
    \A r \in Runs :
        (/\ Done(r) /\ HasHits(r)
         /\ Len(SummaryCalls(r)) = Min(5, Len(Val(run[r].results))) + 1
         /\ SummaryCalls(r)[Len(SummaryCalls(r))].res \in {"ok", "disambiguation"})
        => /\ run[r].toast = Success
           /\ run[r].picked = Some(Val(run[r].results)[1])
           /\ run[r].candidate.common_name = Some(Val(run[r].results)[1].title)

\* the entity-id lookups the chain makes for the picked hit, in the order of the chain
ExpectedLookups(r) ==
    LET hit == Val(run[r].picked)
        byPage == IF IsSome(hit.pageid)
                  THEN <<[call |-> "wikidataQidByPageId", arg |-> Val(hit.pageid)]>>
                  ELSE <<>>
    IN  byPage \o <<[call |-> "wikidataQidByTitle", arg |-> hit.title],
                    [call |-> "searchWikidataQid", arg |-> hit.title],
                    [call |-> "searchWikidataQid", arg |-> run[r].calls[1].arg]>>

EntityIds == {"Q1", "Q2"}

\* C4: the entity-id lookups of a run are a prefix of: page-id cross-reference (only
\* for a hit with a page id), title cross-reference, entity search on the title, entity
\* search on the trimmed query; every lookup but the last one issued found no id; the
\* facts fetch is issued at most once, only after a lookup returned an id, and for
\* exactly that id; a lookup that returned an id is followed by the facts fetch.
C4_ChainOrder ==
    \A r \in Runs :
        IF IsSome(run[r].picked)
        THEN LET L == IdLookups(r)
                 E == ExpectedLookups(r)
                 F == FactsCalls(r)
             IN  /\ Len(L) <= Len(E)
                 /\ \A k \in 1..Len(L) :
                       /\ L[k].call = E[k].call
                       /\ L[k].arg = E[k].arg
                       /\ k < Len(L) => L[k].res = "none"
                 /\ Len(F) <= 1
                 /\ Len(F) = 1
                    <=> (Len(L) >= 1 /\ L[Len(L)].res \in EntityIds)
                 /\ Len(F) = 1
                    => /\ F[1].arg = L[Len(L)].res
                       /\ run[r].qid = Some(F[1].arg)
                       /\ run[r].calls[Len(run[r].calls)] = F[1]
        ELSE IdLookups(r) = <<>> /\ FactsCalls(r) = <<>>

C4_Witness ==
    \E r \in Runs :
        /\ IsSome(run[r].picked) /\ IsSome(Val(run[r].picked).pageid)
        /\ Len(IdLookups(r)) = 4
        /\ IdLookups(r)[4].res = "Q2"
        /\ Len(FactsCalls(r)) = 1
        /\ FactsCalls(r)[1].arg = "Q2"
        /\ run[r].toast = Success

\* C5: once an article's summary was accepted, the run ends with the success
\* notification whatever happens to the entity-id lookups and the facts fetch (network
\* error or non-success status).
C5_StructuredFailuresAbsorbed ==
    \A r \in Runs :
        (Done(r) /\ IsSome(run[r].summary)) => run[r].toast = Success

\* C6: after a run in which both the facts and the extract gave a population, the
\* population the run leaves in the form is the one from the facts.
C6_StructuredPopulationWins ==
    \A r \in Runs :
        (Done(r) /\ run[r].toast = Success
         /\ IsSome(run[r].popFromWD) /\ IsSome(run[r].popFromSummary))
        => run[r].candidate.total_population = run[r].popFromWD

\* C7: the population parsed from the extract, the population of the facts and the
\* total_population a run writes are, when present, at least 1.
C7_PopulationsPositive ==
    \A r \in Runs :
        /\ IsSome(run[r].popFromSummary) => Val(run[r].popFromSummary) >= 1
        /\ IsSome(run[r].popFromWD) => Val(run[r].popFromWD) >= 1
        /\ IsSome(run[r].candidate.total_population)
           => Val(run[r].candidate.total_population) >= 1

\* the taxonomic-name claim of a facts response: present when the response is a
\* success whose entity carries a string with a non-whitespace character, trimmed
StructuredName(resp) ==
    IF resp.net /\ resp.ok /\ IsSome(resp.json) /\ IsSome(Val(resp.json).entity)
    THEN LET v == Val(Val(resp.json).entity).P225
         IN  IF IsSome(v) /\ Val(v).string
                /\ \E k \in 1..Len(Val(v).value) : Val(v).value[k] \notin WhiteSpace
             THEN Some(trim(Val(v).value))
             ELSE None
    ELSE None

\* one capitalized word, a space, one all-lowercase word
BinomialShape(title) ==
    \E k \in 2..Len(title) - 1 :
        /\ title[k] = " "
        /\ title[1] \in UpperCase
        /\ \A j \in 2..k - 1 : title[j] \in LowerCase
        /\ \A j \in k + 1..Len(title) : title[j] \in LowerCase
        /\ k >= 3

ExpectedName(structured, title) ==
    IF IsSome(structured) THEN Val(structured)
    ELSE IF BinomialShape(title) THEN title ELSE <<>>

\* C8: whenever a run ends with success, the scientific name it leaves is the trimmed
\* non-blank taxonomic name of the facts response if there is one, else the title of
\* the picked article if the title is of binomial shape, else empty.
C8_ScientificName ==
    [][\A r \in Runs :
          (run[r].pc # "done" /\ run'[r].pc = "done" /\ run'[r].toast = Success)
          => LET title == Val(run'[r].picked).title
                 name == run'[r].candidate.scientific_name
             IN  IF run[r].pc = "facts"
                 THEN \A resp \in FactsResponses :
                         FactsReturns(r, resp)
                         => name = ExpectedName(StructuredName(resp), title)
                 ELSE name = ExpectedName(None, title)]_vars

C8_Witness ==
    \E r \in Runs :
        /\ Done(r) /\ run[r].toast = Success
        /\ Val(run[r].picked).title = PantheraTigris
        /\ run[r].sciFromWD = Some(FelisCatus)
        /\ run[r].candidate.scientific_name = FelisCatus

\* C9: a run whose search call failed (network error or non-success status) ends with
\* the "Search error" notification, never with "No article found".
C9_SearchFailureIsSearchUnavailable ==
    \A r \in Runs :
        (Done(r) /\ run[r].calls[1].res \in {"throw", "notok"})
        => run[r].toast = SearchError

\* C10: a run in which every summary fetch, the refetch of the first hit included, came
\* back with a non-success status ends with "Error fetching article", made no entity-id
\* lookup and no facts fetch, and wrote no field.
C10_NoSummaryNoFields ==
    \A r \in Runs :
        (/\ Done(r) /\ HasHits(r)
         /\ Len(SummaryCalls(r)) = Min(5, Len(Val(run[r].results))) + 1
         /\ \A k \in 1..Len(SummaryCalls(r)) : SummaryCalls(r)[k].res = "notok")
        => /\ run[r].toast = SummaryUnavailable
           /\ IdLookups(r) = <<>>
           /\ FactsCalls(r) = <<>>
           /\ run[r].candidate = EmptyCandidate
           /\ Alone(r) => \A k \in AutofillFields : form[k] = defaultValues[k]

C10_Witness ==
    \E r \in Runs :
        /\ Done(r) /\ HasHits(r)
        /\ Len(SummaryCalls(r)) = 6
        /\ \A k \in 1..6 : SummaryCalls(r)[k].res = "notok"
        /\ run[r].toast = SummaryUnavailable

\* C11: a run that ends with a failure notification has populated none of the five
\* autofill fields (equivalently: a run that populated a field ends with success).
C11_NoErrorWithPartialFill ==
    \A r \in Runs :
        (Done(r) /\ run[r].toast # Success) => run[r].candidate = EmptyCandidate

\* every step of the chain was made for the picked hit and none found an id
NoIdFound(r) ==
    /\ IsSome(run[r].picked)
    /\ Len(IdLookups(r)) = Len(ExpectedLookups(r))
    /\ \A k \in 1..Len(IdLookups(r)) : IdLookups(r)[k].res = "none"

\* the extract as the description field holds it
DescriptionOf(summary) ==
    IF IsSome(summary.extract) /\ Val(summary.extract) # <<>> THEN summary.extract ELSE None

\* C12: a finished run whose entity-id steps all found nothing made no facts fetch, has
\* no structured name and no structured population, ends with success, and leaves
\* description, image and common name from the summary and the hit, the scientific name
\* from the title heuristic and the population from the extract.
C12_NoIdStillSucceeds ==
    \A r \in Runs :
        (Done(r) /\ NoIdFound(r))
        => LET summary == Val(run[r].summary)
               title == Val(run[r].picked).title
           IN  /\ FactsCalls(r) = <<>>
               /\ run[r].qid = None
               /\ run[r].sciFromWD = None /\ run[r].popFromWD = None
               /\ run[r].toast = Success
               /\ run[r].candidate =
                     [description |-> DescriptionOf(summary),
                      image |-> summary.thumbnail,
                      common_name |-> Some(title),
                      scientific_name |-> ExpectedName(None, title),
                      total_population |-> popFromSummaryOf[summary.extract]]

C12_Witness ==
    \E r \in Runs :
        /\ Done(r) /\ NoIdFound(r) /\ Len(IdLookups(r)) = 4
        /\ run[r].toast = Success
        /\ run[r].candidate.total_population = Some(3200)
        /\ run[r].candidate.scientific_name = PantheraTigris

\* C13: at the step that ends a run with success, description is the summary's extract
\* (when non-empty), image its thumbnail, common name the title of the picked hit, which
\* is one of the search hits, the summary is a body the summary endpoint returned, the
\* scientific name is empty, the title or the name of the facts response, and the
\* population is absent, the one of the facts response or the one parsed from the extract.
C13_FieldsFromResponses ==
    [][\A r \in Runs :
          (run[r].pc # "done" /\ run'[r].pc = "done" /\ run'[r].toast = Success)
          => LET summary == Val(run'[r].summary)
                 hit == Val(run'[r].picked)
                 cand == run'[r].candidate
                 hits == Val(run'[r].results)
             IN  /\ cand.description = DescriptionOf(summary)
                 /\ cand.image = summary.thumbnail
                 /\ cand.common_name = Some(hit.title)
                 /\ \E k \in 1..Len(hits) : hit = hits[k]
                 /\ \E resp \in SummaryResponses : resp.json = Some(summary)
                 /\ IF run[r].pc = "facts"
                    THEN \A resp \in FactsResponses :
                            FactsReturns(r, resp)
                            => /\ cand.scientific_name
                                  \in {<<>>, hit.title} \cup
                                      {Val(n) : n \in {fetchFromWikidata(resp).scientific} \ {None}}
                               /\ cand.total_population
                                  \in {None, fetchFromWikidata(resp).population,
                                       popFromSummaryOf[summary.extract]}
                    ELSE /\ cand.scientific_name \in {<<>>, hit.title}
                         /\ cand.total_population \in {None, popFromSummaryOf[summary.extract]}]_vars

C13_Witness ==
    \E r \in Runs :
        /\ Done(r) /\ run[r].toast = Success
        /\ run[r].candidate.description = Some(ExtractWithCount)
        /\ run[r].candidate.image = Some(ThumbnailUrl)
        /\ run[r].candidate.common_name = Some(BengalTiger)
        /\ run[r].candidate.total_population = Some(500)

\* C16: when the facts come back, the population is 12000 for the amount "+12000" and
\* absent for the amounts "-5", "0", "n/a" and for a missing amount.
C16_SignedAmounts ==
    [][\A r \in Runs, resp \in FactsResponses :
          (/\ FactsReturns(r, resp)
           /\ resp.net /\ resp.ok /\ IsSome(Val(resp.json).entity))
          => LET amount == Val(Val(resp.json).entity).P1082
             IN  /\ amount = Some(<<"+","1","2","0","0","0">>) => run'[r].popFromWD = Some(12000)
                 /\ amount \in {None, Some(<<"-","5">>), Some(<<"0">>), Some(<<"n","/","a">>)}
                    => run'[r].popFromWD = None]_vars

C16_Witness ==
    \E r \in Runs :
        /\ Done(r) /\ run[r].popFromWD = Some(12000)
        /\ run[r].candidate.total_population = Some(12000)

\* 1 search, 2 summary fetch, 3 entity-id lookup, 4 facts fetch
Phase(c) ==
    IF c.call = "search" THEN 1
    ELSE IF IsSummaryCall(c) THEN 2 ELSE IF IsIdLookup(c) THEN 3 ELSE 4

\* the calls of run r are one search, then at most maxSummaries summary fetches, then at
\* most 4 entity-id lookups, then at most one facts fetch, and only the last is pending
CallsInOrder(r, maxSummaries) ==
    LET calls == run[r].calls
    IN  /\ \A k \in 1..Len(calls) - 1 :
              /\ Phase(calls[k]) <= Phase(calls[k + 1])
              /\ calls[k].res # "pending"
        /\ run[r].pc # "idle" => Len(calls) >= 1 /\ Phase(calls[1]) = 1
        /\ \A k \in 2..Len(calls) : Phase(calls[k]) # 1
        /\ Len(SummaryCalls(r)) <= maxSummaries
        /\ Len(IdLookups(r)) <= 4
        /\ Len(FactsCalls(r)) <= 1

\* C19 (as amended): the calls of a run are, in this order, one search, at most 6 summary
\* fetches (at most 5 of the loop and then at most one refetch of the first hit), at
\* most 4 entity-id lookups and at most one facts fetch; a call is only issued once
\* every earlier call has come back.
C19_CallOrder ==
    \A r \in Runs :
        /\ CallsInOrder(r, 6)
        /\ Len(SummaryCalls(r)) = 6
           => SummaryCalls(r)[6].arg = Val(run[r].results)[1].title

\* C19 (as written): the same with at most 5 summary fetches.
C19_AtMostFiveSummaries ==
    \A r \in Runs : CallsInOrder(r, 5)

C19_Witness ==
    \E r \in Runs :
        /\ Done(r) /\ run[r].toast = Success
        /\ Len(SummaryCalls(r)) = 6
        /\ Len(IdLookups(r)) = 3
        /\ Len(FactsCalls(r)) = 1

\* C18: every insert request carries the current user's id as author; every update
\* request is filtered by the id of the species and by the current user's id, and is
\* only sent when that user is the author of the species; for any other user the edit
\* dialog never opens and no update is sent.
C18_WritesScopedToOwner ==
    /\ \A k \in 1..Len(inserts) : inserts[k].row.author = userId
    /\ \A k \in 1..Len(updates) :
          /\ userId = species.author
          /\ updates[k].id = species.id
          /\ updates[k].author = userId
    /\ userId # species.author => updates = <<>> /\ ~edit.open

C18_Witness ==
    /\ userId = species.author
    /\ \E k \in 1..Len(updates) :
          updates[k].res = "ok" /\ updates[k].values.scientific_name = PantheraTigris
    /\ \E k \in 1..Len(inserts) : inserts[k].row.scientific_name = FelisCatus

\* the rows of the insert requests sent so far
Rows(requests) == [k \in 1..Len(requests) |-> requests[k].row]

\* C17: the rows sent to the species table only change in a step that is the submit of
\* an open add form whose values pass validation, and then by exactly one row, the one
\* of that form; a step of a search run, an open and a close of the dialog leave them
\* as they are.
C17_InsertOnlyOnSubmit ==
    [][/\ Rows(inserts') # Rows(inserts)
          => /\ handleSubmit
             /\ open /\ Validates(form)
             /\ Rows(inserts') = Append(Rows(inserts), InsertedRow(Parsed(form)))
       /\ (handleSubmit /\ Validates(form)) => Len(inserts') = Len(inserts) + 1
       /\ ((\E r \in DOMAIN run : run'[r] # run[r] /\ run'[r].pc # "idle") \/ open' # open)
          => Rows(inserts') = Rows(inserts)]_vars

C17_Witness ==
    /\ \E r \in DOMAIN run : Done(r) /\ run[r].toast = Success
    /\ Len(inserts) = 2
    /\ inserts[1].res = "error"
    /\ inserts[2].row.scientific_name = FelisCatus
    /\ inserts[2].row.total_population = Some(500)

\* C20: once a newer run has started, a step of an older run that is still in flight
\* leaves the five autofill fields of the form as they are.
C20_StaleRunDiscarded ==
    [][\A older \in DOMAIN run, newer \in DOMAIN run :
          (/\ older < newer
           /\ run[newer].pc # "idle"
           /\ run[older].pc \notin {"idle", "done"}
           /\ run'[older] # run[older]
           /\ run'[older].pc # "idle")
          => \A k \in AutofillFields : form'[k] = form[k]]_vars

\* the step in which run r ends
Ends(r) == run[r].pc \notin {"idle", "done"} /\ run'[r].pc = "done"

\* C14: when a run ends, the five autofill fields of the form hold what that run wrote
\* after clearing them, and if an earlier run had the same query against the same
\* responses they hold the values that the earlier run ended with, whatever was typed
\* into the fields in between.
C14_RerunSameFields ==
    [][\A r \in DOMAIN run :
          Ends(r) =>
             /\ \A k \in AutofillFields : form'[k] = run'[r].candidate[k]
             /\ (IsSome(previous') /\ Val(previous').q = run'[r].q)
                => \A k \in AutofillFields : form'[k] = Val(previous').candidate[k]]_vars

C14_Witness ==
    \E r \in DOMAIN run :
       /\ Done(r) /\ run[r].toast = Success
       /\ IsSome(previous) /\ Val(previous).q = run[r].q
       /\ Val(previous).candidate = run[r].candidate
       /\ wikipediaQuery = <<"t","i","g","e","r">>
       /\ form.scientific_name = FelisCatus
       /\ form.total_population = Some(500)
       /\ form.description = Some(ExtractWithCount)

\* phrase occurs in text, character for character
Contains(text, phrase) ==
    \E i \in 1..(Len(text) - Len(phrase) + 1) : SubSeq(text, i, i + Len(phrase) - 1) = phrase

NoDigit(text) == \A i \in 1..Len(text) : text[i] \notin Digits

\* C15: once a run has parsed the extract of its summary, the number it got is 3200 when
\* the extract contains "population of about 3,200 individuals", 1500000 when it contains
\* "estimated population 1.5 million", and null when the extract is missing, empty or
\* holds no digit.
C15_ExtractorPhrases ==
    \A r \in DOMAIN run :
       (IsSome(run[r].summary) /\ (run[r].pc = "facts" \/ (Done(r) /\ run[r].toast = Success)))
       => LET text == OrEmpty(Val(run[r].summary).extract)
          IN  /\ Contains(text, ExtractWithCount) => run[r].popFromSummary = Some(3200)
              /\ Contains(text, ExtractEstimated) => run[r].popFromSummary = Some(1500000)
              /\ NoDigit(text) => run[r].popFromSummary = None

\* C21: when every call comes back, a run in flight eventually ends with its one
\* notification; the step that ends it is the only one that notifies and it sets the
\* searching flag to false; and while the awaited call has not come back, no other step
\* moves the run or turns the searching flag off.
C21_EndsOrHangs ==
    /\ \A r \in Runs : ~Free(r) ~> (Done(r) /\ run[r].toast # "none")
    /\ [][\A r \in Runs :
             /\ Ends(r) => (run[r].toast = "none" /\ run'[r].toast # "none" /\ ~searching')
             /\ (~Free(r) /\ ~Returns(r)) => (run'[r] = run[r] /\ (searching => searching'))]_vars

\* run r has parsed the extract of its summary
ExtractParsed(r) ==
    IsSome(run[r].summary) /\ (run[r].pc = "facts" \/ (Done(r) /\ run[r].toast = Success))

\* C22: when the "estimated population" pattern matches the extract with a finite,
\* positive value, that value is the extractor's result, whatever the generic pattern
\* matches in the same extract.
C22_EstimatedFirst ==
    \A r \in DOMAIN run :
       ExtractParsed(r) =>
          LET text == OrEmpty(Val(run[r].summary).extract)
          IN  IsSome(PopulationOfMatch(MatchEstimated(text)))
              => run[r].popFromSummary = PopulationOfMatch(MatchEstimated(text))

Letters == UpperCase \cup LowerCase

\* the word that follows the number captured at position p, as a complete token
TokenAfter(text, p) ==
    LET u == SkipWs(text, p + Len(CaptureAt(text, p).num))
    IN  Slice(text, u, SkipSet(text, u, Letters) - 1)

\* C23: when the generic pattern captures a finite number, the result is that number
\* times the multiplier of the whole word that follows it: 1e3, 1e6 or 1e9 for a unit
\* word, 1 for any other word.
C23_UnitIsWholeWord ==
    \A r \in DOMAIN run :
       ExtractParsed(r) =>
          LET text == OrEmpty(Val(run[r].summary).extract)
              p == GenericNumberFrom(text, 1)
              whole == [num |-> CaptureAt(text, p).num, unit |-> Some(TokenAfter(text, p))]
          IN  (p # 0 /\ isFinite(parseFloat(StripCommas(whole.num))) /\ RoundedCount(whole) > 0)
              => run[r].popFromSummary = Some(RoundedCount(whole))

\* C24: after a successful run in which the facts gave no population of at least 1
\* (no entity id, no population claim, or an amount such as "+0.4") and the extract gave
\* a number, the total_population the run leaves in the form is the one from the extract.
C24_TextPopulationFallback ==
    \A r \in Runs :
        (/\ Done(r) /\ run[r].toast = Success
         /\ IsSome(run[r].popFromSummary)
         /\ (IsSome(run[r].popFromWD) => Val(run[r].popFromWD) < 1))
        => run[r].candidate.total_population = run[r].popFromSummary

\* C25: at most one run is in flight, and the searching flag is true exactly while a
\* run is in flight.
C25_OneRunInFlight ==
    /\ Cardinality({r \in DOMAIN run : ~Free(r)}) <= 1
    /\ searching <=> (\E r \in DOMAIN run : ~Free(r))

\* C26: while the dialog is closed, a step of a run that was in flight when it closed
\* leaves the form at the defaults the close reset it to and shows no notification.
C26_ClosedDialogUntouched ==
    [][\A r \in DOMAIN run :
          (~open /\ ~Free(r) /\ run'[r] # run[r] /\ run'[r].pc # "idle")
          => (form = defaultValues /\ form' = defaultValues /\ lastToast' = lastToast)]_vars

\* the values run rn can have derived for field k from the responses it got
Derived(rn, k) ==
    IF ~IsSome(rn.summary) THEN {}
    ELSE CASE k = "description" -> {Val(rn.summary).extract} \ {None, Some(<<>>)}
           [] k = "image" -> {Val(rn.summary).thumbnail} \ {None, Some(<<>>)}
           [] k = "common_name" -> {Some(Val(rn.picked).title)}
           [] k = "scientific_name" ->
                 {Val(o) : o \in {rn.sciFromWD} \ {None}}
                 \cup {t \in {Val(rn.picked).title} : BinomialShape(t)}
           [] k = "total_population" -> {rn.popFromWD, rn.popFromSummary} \ {None, Some(0)}

\* C27: when a run ends, each autofill field holds a value the run derived or its
\* cleared default, not what it held before the run; no step of a run changes the
\* kingdom; and a Search click with a blank query changes no field and issues no call.
C27_RunFrame ==
    [][/\ \A r \in DOMAIN run :
             /\ Ends(r) => \A k \in AutofillFields :
                              form'[k] = defaultValues[k] \/ form'[k] \in Derived(run'[r], k)
             /\ run'[r] # run[r] => form'.kingdom = form.kingdom
       /\ (trim(wikipediaQuery) = <<>> /\ lastToast' = "Empty search" /\ lastToast' # lastToast)
          => (form' = form /\ run' = run)]_vars

\* C28: the provider is called only for a string message that is not blank and passes
\* both keyword tests; a string message that is not blank and fails a keyword test gets
\* the off-topic reply and no call; an unreadable body and a missing, non-string or blank
\* message get status 400 and no call; and the reply of a request is the one its own
\* body, environment and provider answer give, whatever was asked before.
C28_ChatGate ==
    [][IsSome(chat'.last) =>
          LET l == Val(chat'.last)
              m == l.body.message
              isText == l.body.json /\ IsSome(m) /\ Val(m).string /\ trim(Val(m).value) # <<>>
              onTopic == test(SPECIES_REGEX, Val(m).value) /\ test(TopicWords, trim(Val(m).value))
              called == Len(chat'.calls) = Len(chat.calls) + 1
          IN  /\ called \/ chat'.calls = chat.calls
              /\ called => (isText /\ onTopic /\ chat'.calls[Len(chat'.calls)] = trim(Val(m).value))
              /\ (isText /\ ~onTopic)
                 => (l.reply.status = 200 /\ l.reply.response.text = OffTopicReply /\ ~called)
              /\ ~isText => (l.reply.status = 400 /\ ~called)
              /\ l.reply = Respond(l.body, l.apiKey, l.production, l.resp)]_vars

C28_Witness ==
    /\ Len(chat.calls) = 1
    /\ chat.calls[1] = <<"D","i","e","t"," ","o","f"," ","a"," ","F","I","S","H">>
    /\ IsSome(chat.last)
    /\ Val(chat.last).body.message = Str(<<"b","i","r","d">>)
    /\ Val(chat.last).reply.response.text = OffTopicReply

====
